---- MODULE Spec2Model ----
(***************************************************************************)
(* Model of ci-scripts/aws_client_check.py: the pylint checker             *)
(* NoGlobalS3Endpoint.  The host linter hands one astroid Call node to     *)
(* visit_call; the checker either adds the message                         *)
(* "s3-with-global-endpoint" for that node, adds nothing, or lets a Python *)
(* exception (IndexError, AttributeError) escape to the host.              *)
(*                                                                         *)
(* astroid nodes are records whose field set is the attribute set of the   *)
(* node class, so that hasattr(o, "f") is "f" \in DOMAIN o.                *)
(***************************************************************************)
EXTENDS Integers, Sequences, FiniteSets, TLC

VARIABLES node, pc, messages, raised

vars == <<node, pc, messages, raised>>

(* ------------------------------------------------------------ bounds --- *)
\* deepest nesting of attribute accesses in a callee (a.b.c has depth 2)
MaxChain == 2
\* longest positional argument list
MaxArgs == 2
\* longest keyword argument list
MaxKeywords == 2

(* ------------------------------------------------------ astroid nodes --- *)
\* Python's None (an absent keyword list)
None == [kind |-> "NoneType"]

Name(n) == [kind |-> "Name", name |-> n]

Attribute(e, a) == [kind |-> "Attribute", expr |-> e, attrname |-> a]

Const(v) == [kind |-> "Const", value |-> v]

Keyword(a, v) == [kind |-> "Keyword", arg |-> a, value |-> v]

PyList(s) == [kind |-> "list", elts |-> s]

Call(f, a, k) == [kind |-> "Call", func |-> f, args |-> a, keywords |-> k]

\* hasattr(o, f): the node class of o defines the attribute f
hasattr(o, f) == f \in DOMAIN o

\* truth value of a Python object in a boolean context: astroid node classes
\* define neither __bool__ nor __len__, so every node is true; None is false
Truthy(o) == o.kind # "NoneType"

\* the outcome of evaluating a Python expression: a value or a raised exception
Ok(v) == [exc |-> "none", val |-> v]

Raise(e) == [exc |-> e, val |-> FALSE]

(* -------------------------------------------------------- the checker --- *)
FactoryNames == {"boto3", "boto_session"}

FactoryMethods == {"client", "resource"}

MsgId == "s3-with-global-endpoint"

\* a slip of lines 89-90: the keyword's name is not compared
kwarg_present_any_name(kwarg, name_to_check) ==
    Truthy(kwarg.value)

\* lines 89-90
kwarg_present(kwarg, name_to_check) ==
    kwarg.arg = name_to_check /\ Truthy(kwarg.value)

\* lines 80-87: the while loop of _is_boto_client_or_resource, entered with
\* the loop variable bound to n
RECURSIVE chain_walk(_)
chain_walk(n) ==
    IF ~hasattr(n, "expr") THEN Ok(FALSE)
    ELSE LET next_node == n.expr IN
         IF ~hasattr(next_node, "attrname") THEN Raise("AttributeError")
         ELSE IF next_node.attrname \in FactoryNames
              THEN IF ~hasattr(n, "attrname") THEN Raise("AttributeError")
                   ELSE IF n.attrname \in FactoryMethods THEN Ok(TRUE)
                   ELSE chain_walk(next_node)
              ELSE chain_walk(next_node)

\* a slip of lines 75-78: the base identifier's name is not compared
is_boto_client_or_resource_any_base(n) ==
    IF ~hasattr(n, "func") THEN Ok(FALSE)
    ELSE IF ~hasattr(n.func, "expr") THEN Raise("AttributeError")
    ELSE IF /\ hasattr(n.func.expr, "name")
            /\ n.func.attrname \in FactoryMethods
         THEN Ok(TRUE)
         ELSE chain_walk(n)

\* lines 71-87
is_boto_client_or_resource(n) ==
    IF ~hasattr(n, "func") THEN Ok(FALSE)
    ELSE IF ~hasattr(n.func, "expr") THEN Raise("AttributeError")
    ELSE IF /\ hasattr(n.func.expr, "name")
            /\ n.func.expr.name \in FactoryNames
            /\ n.func.attrname \in FactoryMethods
         THEN Ok(TRUE)
         ELSE chain_walk(n)

\* a slip of line 69: any literal first argument is accepted
first_arg_is_literal(n) ==
    IF Len(n.args) = 0 THEN Raise("IndexError")
    ELSE LET a == n.args[1] IN
         IF ~hasattr(a, "value") THEN Raise("AttributeError")
         ELSE Ok(a.kind = "Const")

\* a slip of line 69: node.args[-1] is read instead of node.args[0]
last_arg_is_s3(n) ==
    IF Len(n.args) = 0 THEN Raise("IndexError")
    ELSE LET a == n.args[Len(n.args)] IN
         IF ~hasattr(a, "value") THEN Raise("AttributeError")
         ELSE Ok(a.kind = "Const" /\ a.value = "s3")

\* line 69: node.args[0].value == "s3"
first_arg_is_s3(n) ==
    IF Len(n.args) = 0 THEN Raise("IndexError")
    ELSE LET a == n.args[1] IN
         IF ~hasattr(a, "value") THEN Raise("AttributeError")
         ELSE Ok(a.kind = "Const" /\ a.value = "s3")

\* lines 66-69
is_s3_client_or_resource(n) ==
    IF n.func.kind # "Attribute" THEN Ok(FALSE)
    ELSE LET b == is_boto_client_or_resource(n) IN
         IF b.exc # "none" THEN b
         ELSE IF ~b.val THEN Ok(FALSE)
         ELSE first_arg_is_s3(n)

\* a slip of lines 58-62: the loop gives up after the first keyword
scan_first_keyword(kws) ==
    IF kws = <<>> THEN FALSE
    ELSE IF kwarg_present(Head(kws), "region_name") THEN TRUE
    ELSE IF kwarg_present(Head(kws), "endpoint_url") THEN TRUE
    ELSE FALSE

\* lines 58-62: the for loop; TRUE when the loop returns from visit_call
RECURSIVE scan_keywords(_)
scan_keywords(kws) ==
    IF kws = <<>> THEN FALSE
    ELSE IF kwarg_present(Head(kws), "region_name") THEN TRUE
    ELSE IF kwarg_present(Head(kws), "endpoint_url") THEN TRUE
    ELSE scan_keywords(Tail(kws))

\* lines 57-62
has_override(n) ==
    IF n.keywords.kind # "NoneType" THEN scan_keywords(n.keywords.elts) ELSE FALSE

(* ------------------------------------------------------------- inputs --- *)
Names == {Name("boto3"), Name("boto_session"), Name("session")}

AttrNames == {"client", "resource", "boto_session", "Session"}

RECURSIVE Exprs(_)
Exprs(d) ==
    IF d = 0 THEN Names
    ELSE {Attribute(e, a) : e \in Exprs(d - 1), a \in AttrNames}

Funcs == UNION {Exprs(d) : d \in 0..MaxChain}

ArgNodes == {Const("s3"), Const("ec2"), Name("service"),
             Attribute(Name("self"), "service")}

KeywordNodes ==
    {Keyword(a, v) : a \in {"region_name", "endpoint_url"},
                     v \in {Const(""), Const("us-west-2")}}
    \cup {Keyword("config", Const("cfg"))}

SeqsUpTo(S, n) == UNION {[1..k -> S] : k \in 0..n}

ArgLists == SeqsUpTo(ArgNodes, MaxArgs)

\* astroid leaves Call.keywords None or an empty list when a call has none
KeywordLists ==
    {None} \cup {PyList(s) : s \in SeqsUpTo(KeywordNodes, MaxKeywords)}

(* ------------------------------------------------------ state machine --- *)
\* the host is about to call visit_call(node); nothing has been reported
Init ==
    /\ \E f \in Funcs, a \in ArgLists, k \in KeywordLists : node = Call(f, a, k)
    /\ pc = "pending"
    /\ messages = <<>>
    /\ raised = "none"

\* lines 50-64
visit_call ==
    /\ pc = "pending"
    /\ pc' = "done"
    /\ node' = node
    /\ LET r == is_s3_client_or_resource(node) IN
       IF r.exc # "none"
       THEN /\ raised' = r.exc
            /\ messages' = messages
       ELSE /\ raised' = "none"
            /\ IF r.val /\ ~has_override(node)
               THEN messages' = Append(messages, [msgid |-> MsgId, node |-> node])
               ELSE messages' = messages

Next == visit_call

Spec == Init /\ [][Next]_vars

(* ------------------------------------------- vocabulary of the claims --- *)
Done == pc = "done"

\* exactly one diagnostic, attached to the visited node
ReportedOnce == messages = <<[msgid |-> MsgId, node |-> node]>>

Silent == messages = <<>>

NoError == raised = "none"

\* F.client(...) or F.resource(...) with F the bare identifier boto3 or boto_session
IsBareFactoryCall(n) ==
    /\ n.func.kind = "Attribute"
    /\ n.func.expr.kind = "Name"
    /\ n.func.expr.name \in {"boto3", "boto_session"}
    /\ n.func.attrname \in {"client", "resource"}

\* X.boto3.client(...), X.boto_session.resource(...): the base of the callee is
\* an attribute access named boto3 or boto_session
IsNestedFactoryCall(n) ==
    /\ n.func.kind = "Attribute"
    /\ n.func.expr.kind = "Attribute"
    /\ n.func.expr.attrname \in {"boto3", "boto_session"}
    /\ n.func.attrname \in {"client", "resource"}

\* some adjacent pair of links of the attribute chain e is (factory name, method)
RECURSIVE ChainMatches(_)
ChainMatches(e) ==
    /\ e.kind = "Attribute"
    /\ \/ /\ e.expr.kind = "Attribute"
          /\ e.expr.attrname \in {"boto3", "boto_session"}
          /\ e.attrname \in {"client", "resource"}
       \/ ChainMatches(e.expr)

IsRecognisedFactoryCall(n) == IsBareFactoryCall(n) \/ ChainMatches(n.func)

FirstArgIsLiteral(n) == Len(n.args) >= 1 /\ n.args[1].kind = "Const"

FirstArgIsS3(n) == FirstArgIsLiteral(n) /\ n.args[1].value = "s3"

KeywordsOf(n) == IF n.keywords.kind = "NoneType" THEN <<>> ELSE n.keywords.elts

NamesOverride(kw) == kw.arg \in {"region_name", "endpoint_url"}

EmptyValue(kw) == kw.value.kind = "Const" /\ kw.value.value = ""

\* region_name or endpoint_url supplied with a present, non-empty value
Qualifying(kw) == NamesOverride(kw) /\ ~EmptyValue(kw)

NoOverrideKeyword(n) ==
    \A i \in DOMAIN KeywordsOf(n) : ~NamesOverride(KeywordsOf(n)[i])

SomeQualifyingKeyword(n) ==
    \E i \in DOMAIN KeywordsOf(n) : Qualifying(KeywordsOf(n)[i])

Boto3Client == Attribute(Name("boto3"), "client")

(* ------------------------------------------------------------- claims --- *)
\* C1: a call boto3/boto_session .client/.resource with first positional
\* argument "s3" and no keyword named region_name or endpoint_url is reported
\* exactly once, on that node, and nothing is raised.
C1_ReportsOnce ==
    (Done /\ IsBareFactoryCall(node) /\ FirstArgIsS3(node) /\ NoOverrideKeyword(node))
        => (NoError /\ ReportedOnce)

C1_Witness ==
    /\ Done
    /\ node = Call(Attribute(Name("boto_session"), "resource"), <<Const("s3")>>,
                   PyList(<<Keyword("config", Const("cfg"))>>))
    /\ ReportedOnce

C3_NestedChainReported ==
    (Done /\ IsNestedFactoryCall(node) /\ FirstArgIsS3(node) /\ NoOverrideKeyword(node))
        => (NoError /\ ReportedOnce)

\* C4: a factory call with no positional argument neither raises nor reports.
C4_NoArgsNoError ==
    (Done /\ IsBareFactoryCall(node) /\ Len(node.args) = 0)
        => (NoError /\ Silent)

\* C5: a factory call whose first positional argument is not a literal (a
\* name, an attribute access) is skipped: no diagnostic, no error.
C5_NonLiteralSkipped ==
    (Done /\ IsBareFactoryCall(node) /\ Len(node.args) >= 1
          /\ node.args[1].kind \in {"Name", "Attribute"})
        => (NoError /\ Silent)

\* C6: a target call whose region_name keyword has an empty value, and that
\* has no qualifying keyword, is still reported.
C6_EmptyValueReported ==
    (Done /\ IsBareFactoryCall(node) /\ FirstArgIsS3(node)
          /\ (\E i \in DOMAIN KeywordsOf(node) :
                 KeywordsOf(node)[i].arg = "region_name" /\ EmptyValue(KeywordsOf(node)[i]))
          /\ ~SomeQualifyingKeyword(node))
        => (NoError /\ ReportedOnce)

\* C7: a factory call whose first positional argument is a string literal
\* other than "s3" is never reported, whatever its keywords.
C7_OtherServiceSilent ==
    (Done /\ IsRecognisedFactoryCall(node) /\ FirstArgIsLiteral(node)
          /\ ~FirstArgIsS3(node))
        => Silent

C7_Witness ==
    /\ Done
    /\ node = Call(Boto3Client, <<Const("ec2")>>, None)
    /\ Silent
    /\ NoError

\* C8: a call that is not a recognised factory call is never reported and
\* never raises, whatever its arguments.
C8_UnrelatedSilent ==
    (Done /\ ~IsRecognisedFactoryCall(node)) => (NoError /\ Silent)

C8_Witness ==
    /\ Done
    /\ node = Call(Attribute(Name("session"), "client"), <<Const("s3")>>, None)
    /\ Silent
    /\ NoError

\* C9: for a target call the diagnostic is emitted if and only if no keyword
\* of the whole list is a qualifying one (region_name or endpoint_url with a
\* present, non-empty value).
C9_ReportedIffNoQualifying ==
    (Done /\ IsBareFactoryCall(node) /\ FirstArgIsS3(node))
        => /\ NoError
           /\ ReportedOnce <=> ~SomeQualifyingKeyword(node)
           /\ Silent <=> SomeQualifyingKeyword(node)

====
